---- MODULE Spec2Model ----
(***************************************************************************)
(* Model of the faculty research dashboard (src/app.py): the cached        *)
(* ingestion and normalisation pipeline load_and_clean_data and the        *)
(* script body main, re-executed on every widget interaction.              *)
(*                                                                         *)
(* Text is modelled as sequences of one-character strings so that strip,   *)
(* lower, capitalize, numeric parsing and pattern search are computed      *)
(* rather than assumed.  A cell of a table is a record                     *)
(* [t, n, s]: t = "null" (NaN), "num" (number n) or "str" (text s).        *)
(* Amounts are modelled as integers (whole lakhs).                         *)
(***************************************************************************)
EXTENDS Integers, Sequences, FiniteSets, TLC

VARIABLES fs, cache, loads, log, pc, selected_dept, selected_status,
          search_term, view

vars == <<fs, cache, loads, log, pc, selected_dept, selected_status,
          search_term, view>>

\* ------------------------------------------------------------------ bounds
\* Largest number of rows in a generated file (specification SpecData).
MaxRows == 2
\* Longest generated Status text (specification SpecNorm).
MaxLen == 3

\* ------------------------------------------------------------------- cells
Null == [t |-> "null", n |-> 0, s |-> <<>>]
Num(k) == [t |-> "num", n |-> k, s |-> <<>>]
Str(x) == [t |-> "str", n |-> 0, s |-> x]

UpperChars == <<"A","B","C","D","E","F","G","H","I","J","K","L","M",
                "N","O","P","Q","R","S","T","U","V","W","X","Y","Z">>
LowerChars == <<"a","b","c","d","e","f","g","h","i","j","k","l","m",
                "n","o","p","q","r","s","t","u","v","w","x","y","z">>
Digits == <<"0","1","2","3","4","5","6","7","8","9">>

\* str.lower / str.upper on one character
LowerCh(ch) ==
    IF \E i \in 1..26 : UpperChars[i] = ch
    THEN LowerChars[CHOOSE i \in 1..26 : UpperChars[i] = ch]
    ELSE ch
UpperCh(ch) ==
    IF \E i \in 1..26 : LowerChars[i] = ch
    THEN UpperChars[CHOOSE i \in 1..26 : LowerChars[i] = ch]
    ELSE ch

\* .str.lower()
Lower(s) == [i \in 1..Len(s) |-> LowerCh(s[i])]

\* .str.strip(): leading and trailing blanks removed
RECURSIVE LStrip(_)
LStrip(s) == IF s # <<>> /\ Head(s) = " " THEN LStrip(Tail(s)) ELSE s
RECURSIVE RStrip(_)
RStrip(s) ==
    IF s # <<>> /\ s[Len(s)] = " " THEN RStrip(SubSeq(s, 1, Len(s) - 1)) ELSE s
Strip(s) == RStrip(LStrip(s))

\* Title-case form of one character, as str.capitalize() uses it for the
\* first character.  "U+0149" stands for the one-character text U+0149 (LATIN
\* SMALL LETTER N PRECEDED BY APOSTROPHE), whose title-case form is the two
\* characters U+02BC, "N"; U+02BC has no case.
TitleCh(ch) == IF ch = "U+0149" THEN <<"U+02BC", "N">> ELSE <<UpperCh(ch)>>

\* .str.capitalize(): first character title-cased, the rest lower-cased
Capitalize(s) == IF s = <<>> THEN <<>> ELSE TitleCh(Head(s)) \o Lower(Tail(s))

\* digit value of a character, -1 when it is no digit
DigitVal(ch) ==
    IF \E i \in 1..10 : Digits[i] = ch
    THEN (CHOOSE i \in 1..10 : Digits[i] = ch) - 1
    ELSE -1

\* str(n) for a non-negative whole number
RECURSIVE NumToStr(_)
NumToStr(k) ==
    IF k < 10 THEN <<Digits[k + 1]>>
    ELSE NumToStr(k \div 10) \o <<Digits[(k % 10) + 1]>>

\* value of a text made of digits only
RECURSIVE DigitsValue(_)
DigitsValue(s) ==
    IF s = <<>> THEN 0
    ELSE 10 * DigitsValue(SubSeq(s, 1, Len(s) - 1)) + DigitVal(s[Len(s)])

IsNumeral(s) == s # <<>> /\ \A i \in 1..Len(s) : DigitVal(s[i]) >= 0

\* pd.to_numeric(..., errors='coerce') on one cell: a number stays, a text
\* that is a numeral becomes its value, everything else becomes NaN
ToNumeric(v) ==
    CASE v.t = "num" -> v
      [] v.t = "str" -> IF IsNumeral(v.s) THEN Num(DigitsValue(v.s)) ELSE Null
      [] OTHER -> Null

\* .fillna(d)
FillNa(v, d) == IF v.t = "null" THEN d ELSE v

\* .astype(str) on one cell: NaN becomes the text "nan"
AsStr(v) ==
    CASE v.t = "str" -> v.s
      [] v.t = "num" -> NumToStr(v.n)
      [] OTHER -> <<"n","a","n">>


\* ------------------------------------------------------------------ tables
\* A table (DataFrame): a set of column names and a sequence of rows, each
\* row a function from the column names to cells.
Frame(cols, rows) == [cols |-> cols, rows |-> rows]

\* pd.DataFrame()
EmptyFrame == Frame({}, <<>>)

\* df.empty: no rows, or no columns
MutNeverEmpty(df) == FALSE

IsEmpty(df) == Len(df.rows) = 0 \/ df.cols = {}

\* "All", the wildcard of both select boxes
All == <<"A","l","l">>

\* the text of a source tag
TagText(dept) ==
    CASE dept = "CSE" -> <<"C","S","E">>
      [] dept = "ECE" -> <<"E","C","E">>

\* files_to_check: the sources in their fixed order
files_to_check ==
    << [dept |-> "CSE", xlsx_name |-> "CSEDATA.xlsx",
        csv_name |-> "CSEDATA.xlsx - Sheet1.csv"],
       [dept |-> "ECE", xlsx_name |-> "ECEDATA.xlsx",
        csv_name |-> "ECEDATA.xlsx - Sheet1.csv"] >>

Depts == {files_to_check[i].dept : i \in 1..Len(files_to_check)}

\* ---------------------------------------------------------------- file I/O
\* fs[dept] describes the two files of a source:
\*   xlsx: "missing" | "bad" (read_excel raises) | "ok"
\*   csv : "missing" | "bad" (read_csv raises something other than a decode
\*         error) | "undecodable" (decode error, and the Latin-1 retry raises
\*         too) | "latin1" (decode error, the Latin-1 retry succeeds) | "ok"
\*   data: the table a successful read returns
XlsxStates == {"missing", "bad", "ok"}
CsvStates == {"missing", "bad", "undecodable", "latin1", "ok"}

\* an effect of the loader: a read attempt or a user-visible message
Effect(op, dept) == [op |-> op, dept |-> dept]

\* outcome of one load attempt: df is None (ok = FALSE) or a table
NoFrame(effects) == [ok |-> FALSE, df |-> EmptyFrame, log |-> effects]
Loaded(df, effects) == [ok |-> TRUE, df |-> df, log |-> effects]

\* lines 22-26: the spreadsheet is read when it exists; any failure is
\* swallowed and leaves df = None
TryExcel(dept) ==
    IF fs[dept].xlsx = "missing" THEN NoFrame(<<>>)
    ELSE IF fs[dept].xlsx = "ok"
         THEN Loaded(fs[dept].data, <<Effect("read_excel", dept)>>)
         ELSE NoFrame(<<Effect("read_excel", dept)>>)

\* lines 29-39: read_csv with the default encoding; on UnicodeDecodeError one
\* retry with latin1 (toast on success, warning on failure); on any other
\* exception a warning
MutNoRetryReadCsv(dept) ==
    CASE fs[dept].csv = "ok" ->
            Loaded(fs[dept].data, <<Effect("read_csv", dept)>>)
      [] OTHER ->
            NoFrame(<<Effect("read_csv", dept), Effect("warning", dept)>>)

ReadCsv(dept) ==
    CASE fs[dept].csv = "ok" ->
            Loaded(fs[dept].data, <<Effect("read_csv", dept)>>)
      [] fs[dept].csv = "latin1" ->
            Loaded(fs[dept].data,
                   <<Effect("read_csv", dept), Effect("read_csv_latin1", dept),
                     Effect("toast", dept)>>)
      [] fs[dept].csv = "undecodable" ->
            NoFrame(<<Effect("read_csv", dept), Effect("read_csv_latin1", dept),
                      Effect("warning", dept)>>)
      [] OTHER ->
            NoFrame(<<Effect("read_csv", dept), Effect("warning", dept)>>)

\* line 28: the CSV is consulted when df is still None and the file exists
MutCsvOnlyWithoutXlsx(dept, x) ==
    fs[dept].xlsx = "missing" /\ fs[dept].csv # "missing"

CsvConsulted(dept, x) == ~x.ok /\ fs[dept].csv # "missing"

\* lines 44-47: df.rename(columns=...)
RenameCol(c) ==
    CASE c = "Funding agency" -> "Funding Agency"
      [] c = "Co-Investigator" -> "Co-investigator"
      [] OTHER -> c

Rename(df) ==
    LET cols == {RenameCol(c) : c \in df.cols}
        Old(c) == CHOOSE o \in df.cols : RenameCol(o) = c
    IN Frame(cols, [i \in 1..Len(df.rows) |->
                        [c \in cols |-> df.rows[i][Old(c)]]])

\* line 42: df['Department'] = dept
TagDepartment(df, dept) ==
    LET cols == df.cols \cup {"Department"}
    IN Frame(cols, [i \in 1..Len(df.rows) |->
           [c \in cols |-> IF c = "Department" THEN Str(TagText(dept))
                           ELSE df.rows[i][c]]])

\* an outcome with earlier effects put in front of its own
After(effects, r) == [r EXCEPT !.log = effects \o @]

\* lines 28-39: the CSV attempt, made only when CsvConsulted
WithCsv(dept, x) ==
    IF CsvConsulted(dept, x) THEN After(x.log, ReadCsv(dept)) ELSE x

\* lines 41-50: a loaded table is tagged and its columns renamed; a source
\* without a table gets an error message
Finish(dept, y) ==
    IF y.ok
    THEN Loaded(Rename(TagDepartment(y.df, dept)), y.log)
    ELSE NoFrame(y.log \o <<Effect("error", dept)>>)

\* lines 20-50: one iteration of the loop over files_to_check
LoadSource(dept) == Finish(dept, WithCsv(dept, TryExcel(dept)))

\* ------------------------------------------------------------ the pipeline
\* lines 18-50: the loop; dfs collects the loaded tables in source order
Collect(before, r) ==
    [dfs |-> IF r.ok THEN Append(before.dfs, r.df) ELSE before.dfs,
     log |-> before.log \o r.log]

RECURSIVE LoadAll(_)
LoadAll(i) ==
    IF i = 0 THEN [dfs |-> <<>>, log |-> <<>>]
    ELSE Collect(LoadAll(i - 1), LoadSource(files_to_check[i].dept))

RECURSIVE AllCols(_)
AllCols(dfs) == IF dfs = <<>> THEN {} ELSE Head(dfs).cols \cup AllCols(Tail(dfs))

\* a row widened to the columns of the union; absent cells are NaN
Widen(row, cols) ==
    [c \in cols |-> IF c \in DOMAIN row THEN row[c] ELSE Null]

RECURSIVE ConcatRows(_, _)
ConcatRows(dfs, cols) ==
    IF dfs = <<>> THEN <<>>
    ELSE [i \in 1..Len(Head(dfs).rows) |-> Widen(Head(dfs).rows[i], cols)]
         \o ConcatRows(Tail(dfs), cols)

RECURSIVE DropRepeats(_)
DropRepeats(rows) ==
    IF rows = <<>> THEN <<>>
    ELSE LET init == DropRepeats(SubSeq(rows, 1, Len(rows) - 1))
             last == rows[Len(rows)]
         IN IF \E i \in 1..Len(init) : init[i] = last THEN init
            ELSE Append(init, last)

MutConcatDropDuplicates(dfs) ==
    Frame(AllCols(dfs), DropRepeats(ConcatRows(dfs, AllCols(dfs))))

\* line 55: pd.concat(dfs, ignore_index=True)
Concat(dfs) == Frame(AllCols(dfs), ConcatRows(dfs, AllCols(dfs)))

\* lines 61-66: astype(str), strip, lower, capitalize
NormStatus(v) == Str(Capitalize(Lower(Strip(AsStr(v)))))

\* line 57
NormAmount(v) == FillNa(ToNumeric(v), Num(0))

\* lines 57-74 on one cell of column c
NormCell(c, v) ==
    CASE c = "Amount(in lakhs)" -> NormAmount(v)
      [] c = "Status" -> NormStatus(v)
      [] c = "Co-investigator" -> FillNa(v, Str(<<"N","o","n","e">>))
      [] c = "Domain" ->
            FillNa(v, Str(<<"U","n","s","p","e","c","i","f","i","e","d">>))
      [] c = "Faculty Name" -> FillNa(v, Str(<<"U","n","k","n","o","w","n">>))
      [] OTHER -> v

\* lines 57-74: the normalisation of the concatenated table.  Indexing
\* df['Amount(in lakhs)'] raises KeyError when no loaded table has the column.
Normalize(df) ==
    IF "Amount(in lakhs)" \notin df.cols
    THEN [raised |-> TRUE, df |-> EmptyFrame]
    ELSE [raised |-> FALSE,
          df |-> Frame(df.cols, [i \in 1..Len(df.rows) |->
                     [c \in df.cols |-> NormCell(c, df.rows[i][c])]])]

\* lines 12-77: the body of load_and_clean_data: the returned table, or
\* raised = TRUE when an exception leaves the function, and its effects
WithLog(n, effects) == [raised |-> n.raised, df |-> n.df, log |-> effects]

\* lines 52-77: what is made of the loaded tables
Clean(l) ==
    IF l.dfs = <<>>
    THEN [raised |-> FALSE, df |-> EmptyFrame, log |-> l.log]
    ELSE WithLog(Normalize(Concat(l.dfs)), l.log)

LoadBody == Clean(LoadAll(Len(files_to_check)))

\* line 11: @st.cache_data.  The body runs when nothing is cached; a returned
\* table is stored and later calls get it back without running the body.  A
\* call that raises stores nothing.
Computed(c, b) ==
    [raised |-> b.raised, df |-> b.df, ran |-> TRUE, log |-> b.log,
     cache |-> IF b.raised THEN c ELSE [filled |-> TRUE, df |-> b.df]]

MutNeverCached(c) == Computed(c, LoadBody)

load_and_clean_data(c) ==
    IF c.filled
    THEN [raised |-> FALSE, df |-> c.df, ran |-> FALSE, log |-> <<>>,
          cache |-> c]
    ELSE Computed(c, LoadBody)

\* ---------------------------------------------------------------- the view
\* df[col].unique() as a set of texts
Unique(df, col) == {df.rows[i][col] : i \in 1..Len(df.rows)}

\* lines 91-98: the options of the two select boxes
DeptOptions(df) == {All} \cup {v.s : v \in Unique(df, "Department")}
StatusOptions(df) ==
    IF "Status" \in df.cols THEN {All} \cup {v.s : v \in Unique(df, "Status")}
    ELSE {All}

\* df[mask]: the rows at the positions in idx, in their order
RECURSIVE Pick(_, _)
Pick(rows, idx) ==
    IF rows = <<>> THEN <<>>
    ELSE LET init == Pick(SubSeq(rows, 1, Len(rows) - 1), idx)
         IN IF Len(rows) \in idx THEN Append(init, rows[Len(rows)]) ELSE init

\* lines 100-104: the department and status filters
MutFilterIgnoresStatus(df, dept, status) ==
    LET KeepDept(r) == dept = All \/ r["Department"] = Str(dept)
    IN Pick(df.rows, {i \in 1..Len(df.rows) : KeepDept(df.rows[i])})

FilterRows(df, dept, status) ==
    LET KeepDept(r) == dept = All \/ r["Department"] = Str(dept)
        KeepStatus(r) ==
            status = All \/ "Status" \notin df.cols \/ r["Status"] = Str(status)
        byDept == Pick(df.rows, {i \in 1..Len(df.rows) : KeepDept(df.rows[i])})
    IN Pick(byDept, {i \in 1..Len(byDept) : KeepStatus(byDept[i])})

\* line 109: df_filtered['Amount(in lakhs)'].sum()
RECURSIVE SumAmounts(_)
SumAmounts(rows) ==
    IF rows = <<>> THEN 0
    ELSE rows[1]["Amount(in lakhs)"].n + SumAmounts(Tail(rows))

\* line 111
UniqueFaculty(df, rows) ==
    IF "Faculty Name" \in df.cols
    THEN Cardinality({rows[i]["Faculty Name"] : i \in 1..Len(rows)})
    ELSE 0

\* re.compile(term): within the characters modelled ("(", "*", "." and plain
\* characters) a pattern is rejected when it opens a group that is never
\* closed or when "*" has nothing to repeat
PatternValid(p) ==
    /\ \A i \in 1..Len(p) : p[i] # "("
    /\ \A i \in 1..Len(p) : p[i] = "*" => (i > 1 /\ p[i - 1] # "*")

\* one pattern character against one text character, ignoring case
ChMatch(c, ch) == c = "." \/ LowerCh(c) = LowerCh(ch)

RECURSIVE MatchHere(_, _)
RECURSIVE MatchStar(_, _, _)
MatchHere(p, s) ==
    IF p = <<>> THEN TRUE
    ELSE IF Len(p) >= 2 /\ p[2] = "*"
         THEN MatchStar(p[1], SubSeq(p, 3, Len(p)), s)
         ELSE s # <<>> /\ ChMatch(p[1], s[1]) /\ MatchHere(Tail(p), Tail(s))
MatchStar(c, p, s) ==
    \/ MatchHere(p, s)
    \/ s # <<>> /\ ChMatch(c, s[1]) /\ MatchStar(c, p, Tail(s))

\* Series.str.contains(term, case=False): the term is a regular expression
\* (regex=True is the default), searched anywhere in the text
Contains(s, p) == \E i \in 0..Len(s) : MatchHere(p, SubSeq(s, i + 1, Len(s)))

\* lines 197-205: the search.  raised: df_filtered['Title'] without a Title
\* column (KeyError) or a term that is no valid pattern (re.error)
Search(df, rows, term) ==
    IF term = <<>> THEN [raised |-> FALSE, rows |-> rows]
    ELSE IF "Title" \notin df.cols \/ ~PatternValid(term)
         THEN [raised |-> TRUE, rows |-> <<>>]
         ELSE LET Hit(r) ==
                      \/ Contains(AsStr(r["Title"]), term)
                      \/ /\ "Faculty Name" \in df.cols
                         /\ Contains(AsStr(r["Faculty Name"]), term)
              IN [raised |-> FALSE,
                  rows |-> Pick(rows, {i \in 1..Len(rows) : Hit(rows[i])})]

\* what one run of the script shows
View(out, rows, metrics, display) ==
    [out |-> out, rows |-> rows, metrics |-> metrics, display |-> display]

\* the metrics of lines 109-111 over the filtered rows
Metrics(df, rows) ==
    [total_funding |-> SumAmounts(rows), total_projects |-> Len(rows),
     unique_faculty |-> UniqueFaculty(df, rows)]

NoMetrics == [total_funding |-> 0, total_projects |-> 0, unique_faculty |-> 0]
NoView == View(<<>>, <<>>, NoMetrics, <<>>)

\* lines 107-215: the page below the sidebar, given the filtered rows
Page(rows, metrics, found) ==
    IF found.raised
    THEN [pc |-> "search_failed",
          view |-> View(<<"title", "markdown", "sidebar", "metrics", "charts",
                          "search_input", "exception">>, rows, metrics, <<>>)]
    ELSE [pc |-> "rendered",
          view |-> View(<<"title", "markdown", "sidebar", "metrics", "charts",
                          "search_input", "table">>, rows, metrics,
                        found.rows)]

Below(df, rows, term) == Page(rows, Metrics(df, rows), Search(df, rows, term))

\* lines 89-215: everything main renders after the emptiness check
Render(df, dept, status, term) ==
    Below(df, FilterRows(df, dept, status), term)

\* lines 84-87 and what follows them, given the outcome of the loader
Show(l, dept, status, term) ==
    IF l.raised
    THEN [pc |-> "crashed",
          view |-> View(<<"title", "markdown", "exception">>,
                        <<>>, NoMetrics, <<>>)]
    ELSE IF IsEmpty(l.df)
         THEN [pc |-> "stopped",
               view |-> View(<<"title", "markdown", "warning">>,
                             <<>>, NoMetrics, <<>>)]
         ELSE Render(l.df, dept, status, term)

Ran(l, shown) ==
    [pc |-> shown.pc, view |-> shown.view, cache |-> l.cache,
     ran |-> l.ran, log |-> l.log]

Script(l, dept, status, term) == Ran(l, Show(l, dept, status, term))

\* lines 79-215: one run of main with the widgets' current values
main(c, dept, status, term) ==
    Script(load_and_clean_data(c), dept, status, term)

\* ------------------------------------------------------------- input files
FullCols == {"Faculty Name", "Title", "Amount(in lakhs)", "Funding Agency",
             "Co-investigator", "Status", "Domain"}
AliasCols == {"Faculty Name", "Title", "Amount(in lakhs)", "Funding agency",
              "Co-Investigator", "Status", "Domain"}
NoAmountCols == {"Faculty Name", "Title", "Status"}
NoStatusCols == {"Title", "Amount(in lakhs)"}
NoTitleCols == {"Faculty Name", "Amount(in lakhs)", "Status"}

\* a file row with the given columns, its cells taken from the record r
FileRow(cols, r) == [c \in cols |-> r[RenameCol(c)]]
FileTable(cols, rs) == Frame(cols, [i \in 1..Len(rs) |-> FileRow(cols, rs[i])])

RowA == [c \in FullCols |->
    CASE c = "Title" -> Str(<<"N","e","t">>)
      [] c = "Faculty Name" -> Str(<<"R","a","o">>)
      [] c = "Amount(in lakhs)" -> Str(<<"1","0">>)
      [] c = "Funding Agency" -> Str(<<"D","S","T">>)
      [] c = "Status" -> Str(<<" ","o","n","g","o","i","n","g"," ">>)
      [] c = "Domain" -> Str(<<"A","I">>)
      [] OTHER -> Null]

RowB == [c \in FullCols |->
    CASE c = "Title" -> Str(<<"a",".","b">>)
      [] c = "Amount(in lakhs)" -> Str(<<"a","b","c">>)
      [] c = "Co-investigator" -> Str(<<"D","a","s">>)
      [] c = "Status" -> Str(<<"C","O","M","P","L","E","T","E","D">>)
      [] OTHER -> Null]

RowC == [c \in FullCols |->
    CASE c = "Faculty Name" -> Str(<<"R","a","o">>)
      [] c = "Amount(in lakhs)" -> Num(5)
      [] c = "Funding Agency" -> Str(<<"D","S","T">>)
      [] c = "Status" -> Str(<<"o","n","g","o","i","n","g">>)
      [] OTHER -> Null]

\* the tables a file may hold in specification Spec
SomeTables ==
    { FileTable(FullCols, <<RowA, RowB>>),
      FileTable(AliasCols, <<RowC, RowC>>),
      FileTable(NoAmountCols, <<RowB>>),
      FileTable(NoStatusCols, <<>>) }

\* sequences over S of length at most n
RECURSIVE SeqsUpTo(_, _)
SeqsUpTo(S, n) ==
    IF n = 0 THEN {<<>>}
    ELSE LET shorter == SeqsUpTo(S, n - 1)
         IN shorter \cup {Append(q, x) : q \in shorter, x \in S}

\* the tables a file may hold in specification SpecData
DataTables(rows) ==
    { FileTable(cols, rs) :
        cols \in {FullCols, NoStatusCols, NoAmountCols},
        rs \in SeqsUpTo(rows, MaxRows) }

\* the tables a file may hold in specification SpecNorm: one row, every
\* Status text over four characters up to MaxLen, and some other cells
StatusCells ==
    {Null, Num(5)} \cup
    {Str(x) : x \in SeqsUpTo({"a", "B", " ", "U+0149"}, MaxLen)}
AmountCells == {Null, Num(5), Str(<<"1","0">>), Str(<<"N","/","A">>), Str(<<>>)}

NormTables ==
    { Frame(NoTitleCols,
            << [c \in NoTitleCols |->
                  CASE c = "Status" -> st
                    [] c = "Amount(in lakhs)" -> am
                    [] OTHER -> fn] >>) :
        st \in StatusCells, am \in AmountCells,
        fn \in {Null, Str(<<"R","a","o">>)} }

Readable(x, c) == x = "ok" \/ c \in {"ok", "latin1"}

\* the states of a source's files; data is the table of the readable file
FileStates(xs, cs, tables) ==
    { [xlsx |-> x, csv |-> c, data |-> d] :
        x \in xs, c \in cs, d \in tables \cup {EmptyFrame} }

WellFormed(f) ==
    IF Readable(f.xlsx, f.csv) THEN f.data # EmptyFrame ELSE f.data = EmptyFrame

\* the terms typed into the search box
SearchTerms == {<<>>, <<"N">>, <<".">>, <<"(">>, <<"*">>}

\* ------------------------------------------------------------ state machine
InitSession ==
    /\ cache = [filled |-> FALSE, df |-> EmptyFrame]
    /\ loads = 0
    /\ log = <<>>
    /\ pc = "init"
    /\ selected_dept = All
    /\ selected_status = All
    /\ search_term = <<>>
    /\ view = NoView

Init ==
    /\ fs \in [Depts -> {f \in FileStates(XlsxStates, CsvStates, SomeTables) :
                            WellFormed(f)}]
    /\ InitSession

InitData ==
    /\ fs \in { [d \in Depts |-> IF d = "CSE" THEN a ELSE b] :
                 a \in {f \in FileStates(XlsxStates, {"missing"},
                                         DataTables({RowA, RowB})) :
                          WellFormed(f)},
                 b \in {f \in FileStates(XlsxStates, {"missing"},
                                         DataTables({RowB, RowC})) :
                          WellFormed(f)} }
    /\ InitSession

InitNorm ==
    /\ fs \in { [d \in Depts |-> IF d = "CSE" THEN a ELSE b] :
                 a \in {f \in FileStates({"ok"}, {"missing"}, NormTables) :
                          WellFormed(f)},
                 b \in {f \in FileStates({"missing"}, {"missing", "ok"},
                                         {FileTable(FullCols, <<RowB>>)}) :
                          WellFormed(f)} }
    /\ InitSession

\* one run of the script with the given widget values
Rerun(m, dept, status, term) ==
    /\ pc' = m.pc
    /\ view' = m.view
    /\ cache' = m.cache
    /\ loads' = loads + (IF m.ran THEN 1 ELSE 0)
    /\ log' = log \o m.log
    /\ selected_dept' = dept
    /\ selected_status' = status
    /\ search_term' = term
    /\ UNCHANGED fs

Run(dept, status, term) ==
    Rerun(main(cache, dept, status, term), dept, status, term)

\* the widgets are on the page once the script got past the sidebar
Interactive == pc \in {"rendered", "search_failed"}

\* the first run of the script: every widget at its default
Start ==
    /\ pc = "init"
    /\ Run(All, All, <<>>)

\* the user picks another department
SelectDept ==
    /\ Interactive
    /\ \E v \in DeptOptions(cache.df) :
          v # selected_dept /\ Run(v, selected_status, search_term)

\* the user picks another status
SelectStatus ==
    /\ Interactive
    /\ \E v \in StatusOptions(cache.df) :
          v # selected_status /\ Run(selected_dept, v, search_term)

\* the user submits another search term
EnterSearch ==
    /\ Interactive
    /\ \E t \in SearchTerms :
          t # search_term /\ Run(selected_dept, selected_status, t)

Next == Start \/ SelectDept \/ SelectStatus \/ EnterSearch

Spec == Init /\ [][Next]_vars
SpecData == InitData /\ [][Next]_vars
SpecNorm == InitNorm /\ [][Next]_vars

\* ------------------------------------------------------------------ claims
\* the first run of the script, and with it the ingestion, is over
Ingested == pc # "init"

HasEffect(op, d) == \E i \in 1..Len(log) : log[i] = Effect(op, d)
CountEffect(op, d) == Cardinality({i \in 1..Len(log) : log[i] = Effect(op, d)})

\* some file of the source can be read
Available(d) == fs[d].xlsx = "ok" \/ fs[d].csv \in {"ok", "latin1"}

\* the rows a source contributes
RowsOf(d) == IF Available(d) THEN fs[d].data.rows ELSE <<>>

\* the file rows of the sources 1..i in source order, each with its source
RECURSIVE Sourced(_)
Sourced(i) ==
    IF i = 0 THEN <<>>
    ELSE Sourced(i - 1) \o
         [k \in 1..Len(RowsOf(files_to_check[i].dept)) |->
             [dept |-> files_to_check[i].dept,
              row |-> RowsOf(files_to_check[i].dept)[k]]]

AllSourced == Sourced(Len(files_to_check))

\* number of rows of the cached dataset tagged with source d
TaggedRows(d) ==
    Cardinality({i \in 1..Len(cache.df.rows) :
                    cache.df.rows[i]["Department"] = Str(TagText(d))})

\* C1: no exception escapes the ingestion stage: load_and_clean_data returns
\* a dataset, whatever files exist, however the reads end and whatever
\* columns the loaded tables have.
C1_NoExceptionEscapes == Ingested => pc # "crashed" /\ cache.filled

\* C2: the rows of the Unified Dataset are the rows of the loaded tables,
\* source by source in the order CSE, ECE and in file order inside a source,
\* none dropped or merged, each tagged with its source; a source that is
\* missing or unreadable takes away only its own rows.
C2_RowsAreConcatenation ==
    cache.filled =>
        /\ Len(cache.df.rows) = Len(AllSourced)
        /\ \A i \in 1..Len(AllSourced) :
              /\ cache.df.rows[i]["Department"] = Str(TagText(AllSourced[i].dept))
              /\ \A c \in DOMAIN AllSourced[i].row :
                    cache.df.rows[i][RenameCol(c)] =
                        NormCell(RenameCol(c), AllSourced[i].row[c])

C2_Witness ==
    /\ cache.filled
    /\ fs["CSE"].xlsx = "ok" /\ fs["ECE"].xlsx = "ok"
    /\ Len(fs["CSE"].data.rows) = 2
    /\ fs["CSE"].data.rows[1] = fs["CSE"].data.rows[2]
    /\ Len(fs["ECE"].data.rows) = 2
    /\ fs["ECE"].data.rows[1] = fs["CSE"].data.rows[1]
    /\ Len(cache.df.rows) = 4

\* the amount the claim expects for a file row
ExpectedAmount(r) ==
    IF "Amount(in lakhs)" \notin DOMAIN r THEN Num(0)
    ELSE IF r["Amount(in lakhs)"].t = "num" THEN r["Amount(in lakhs)"]
    ELSE IF r["Amount(in lakhs)"].t = "str" /\ IsNumeral(r["Amount(in lakhs)"].s)
         THEN Num(DigitsValue(r["Amount(in lakhs)"].s))
         ELSE Num(0)

\* C3: every row of the Unified Dataset has a numeric amount: the value of
\* the file cell when that is a number or a numeral, and 0 otherwise, also
\* for rows of tables without the column; the coercion is never an error.
C3_AmountAlwaysNumeric ==
    Ingested =>
        /\ pc # "crashed"
        /\ \A i \in 1..Len(cache.df.rows) :
              cache.df.rows[i]["Amount(in lakhs)"] =
                  ExpectedAmount(AllSourced[i].row)

\* C4: when no source can be loaded the loader returns an empty dataset and
\* main stops right after the warning, with no sidebar, metric, chart or
\* table; and main stops only when no row was loaded.
C4_HaltIffNoData ==
    /\ (Ingested /\ \A d \in Depts : ~Available(d)) =>
          /\ pc = "stopped"
          /\ cache = [filled |-> TRUE, df |-> EmptyFrame]
          /\ view.out = <<"title", "markdown", "warning">>
    /\ pc = "stopped" =>
          /\ Len(AllSourced) = 0
          /\ view.out = <<"title", "markdown", "warning">>
    /\ (Ingested /\ pc # "crashed" /\ Len(AllSourced) > 0) =>
          /\ pc \in {"rendered", "search_failed"}
          /\ view.out[3] = "sidebar"

C4_Witness ==
    /\ pc = "stopped"
    /\ \A d \in Depts : ~Available(d)
    /\ \E d \in Depts : fs[d].xlsx = "bad"
    /\ \E d \in Depts : fs[d].csv = "undecodable"

C6_CsvRetryOnce ==
    Ingested =>
        \A d \in Depts :
            HasEffect("read_csv", d) =>
                /\ CountEffect("read_csv", d) = 1
                /\ CountEffect("read_csv_latin1", d) =
                      (IF fs[d].csv \in {"latin1", "undecodable"} THEN 1 ELSE 0)
                /\ fs[d].csv = "latin1" =>
                      /\ CountEffect("toast", d) = 1
                      /\ ~HasEffect("warning", d) /\ ~HasEffect("error", d)
                      /\ cache.filled => TaggedRows(d) = Len(fs[d].data.rows)
                /\ fs[d].csv \in {"undecodable", "bad"} =>
                      /\ CountEffect("warning", d) = 1
                      /\ ~HasEffect("toast", d) /\ HasEffect("error", d)
                      /\ cache.filled => TaggedRows(d) = 0
                      /\ \A i, j \in 1..Len(log) :
                            (log[i] = Effect("warning", d) /\ log[j].dept = d
                             /\ log[j].op \in {"read_excel", "read_csv",
                                               "read_csv_latin1"}) => j < i
                /\ fs[d].csv = "ok" =>
                      ~HasEffect("toast", d) /\ ~HasEffect("warning", d)

C6_Witness ==
    /\ cache.filled
    /\ fs["CSE"].csv = "latin1" /\ HasEffect("read_csv_latin1", "CSE")
    /\ HasEffect("toast", "CSE") /\ TaggedRows("CSE") = 2
    /\ fs["ECE"].csv = "undecodable" /\ HasEffect("read_csv_latin1", "ECE")
    /\ HasEffect("warning", "ECE") /\ TaggedRows("ECE") = 0

\* C7: normalising a dataset that is already normalised changes no cell.
C7_NormalizeIdempotent ==
    (cache.filled /\ ~IsEmpty(cache.df)) =>
        Normalize(cache.df) = [raised |-> FALSE, df |-> cache.df]

\* the Status text of the first CSE file row, when it is a text
PlainStatus ==
    \A i \in 1..Len(fs["CSE"].data.rows[1]["Status"].s) :
        fs["CSE"].data.rows[1]["Status"].s[i] # "U+0149"

\* C7 restricted to Status texts without U+0149
C7_IdempotentOnPlainText == PlainStatus => C7_NormalizeIdempotent

\* the rows the claim expects for a selection, first to last
RECURSIVE Chosen(_, _, _)
Chosen(rows, dept, status) ==
    IF rows = <<>> THEN <<>>
    ELSE (IF /\ (dept = All \/ Head(rows)["Department"].s = dept)
             /\ (status = All \/ "Status" \notin DOMAIN Head(rows)
                 \/ Head(rows)["Status"].s = status)
          THEN <<Head(rows)>> ELSE <<>>)
         \o Chosen(Tail(rows), dept, status)

RECURSIVE Total(_)
Total(rows) ==
    IF rows = <<>> THEN 0
    ELSE Total(SubSeq(rows, 1, Len(rows) - 1))
         + rows[Len(rows)]["Amount(in lakhs)"].n

\* C8: the filtered subset is exactly the rows of the Unified Dataset, in
\* their order, of the chosen department and the chosen status ("All", or no
\* Status column, keeps every row); total funding is the sum of their
\* amounts and the project count is their number.
C8_FilterIsExactSelection ==
    pc \in {"rendered", "search_failed"} =>
        /\ view.rows = Chosen(cache.df.rows, selected_dept, selected_status)
        /\ view.metrics.total_funding = Total(view.rows)
        /\ view.metrics.total_projects = Len(view.rows)

C8_Witness ==
    /\ pc = "rendered"
    /\ Len(cache.df.rows) = 3
    /\ selected_dept = <<"C","S","E">>
    /\ selected_status = <<"O","n","g","o","i","n","g">>
    /\ Len(view.rows) = 1
    /\ view.metrics.total_funding = 10
    /\ view.metrics.total_projects = 1

\* t occurs in s, letter case ignored
IsSubstring(t, s) ==
    \E i \in 0..(Len(s) - Len(t)) :
        \A k \in 1..Len(t) : LowerCh(s[i + k]) = LowerCh(t[k])

\* C9: for a non-empty search term the table shows exactly the filtered rows
\* whose title, or whose faculty name when that column exists, contains the
\* term as a case-insensitive substring, for every term, and the search
\* never raises.
C9_SearchIsSubstring ==
    (pc \in {"rendered", "search_failed"} /\ search_term # <<>>) =>
        /\ pc = "rendered"
        /\ \A r \in {view.rows[i] : i \in 1..Len(view.rows)} :
              (\E j \in 1..Len(view.display) : view.display[j] = r)
              <=> \/ /\ "Title" \in DOMAIN r
                     /\ IsSubstring(search_term, AsStr(r["Title"]))
                  \/ /\ "Faculty Name" \in DOMAIN r
                     /\ IsSubstring(search_term, AsStr(r["Faculty Name"]))

\* C10: across department changes, status changes and searches the
\* ingestion has run once, the cached dataset is still the one the ingestion
\* produced, and what is shown is what the current selection and search
\* term give on that dataset.
SameAsFresh(b) ==
    /\ loads <= 1
    /\ cache.filled => cache.df = b.df
    /\ pc \in {"rendered", "search_failed"} =>
          /\ loads = 1 /\ cache.filled
          /\ view = Render(b.df, selected_dept, selected_status,
                           search_term).view
          /\ log = b.log

C10_LoadedOnceAndViewFromCache == SameAsFresh(LoadBody)

C10_Witness ==
    /\ pc = "rendered"
    /\ loads = 1
    /\ selected_dept = <<"E","C","E">>
    /\ selected_status # All
    /\ search_term = <<"N">>
    /\ Len(view.display) > 0
====
